---- MODULE Spec2Model ----
(***************************************************************************)
(* A model of the scheduling-and-daemon-control subsystem of vsm:          *)
(*   - the scheduler engine (src/vsm/scheduler.py),                        *)
(*   - the backup cycle run by the server-backup job,                      *)
(*   - the daemon lifecycle (src/vsm/daemon.py, src/vsm/background.py),    *)
(*   - the RPC listener thread (src/vsm/rpc.py).                           *)
(* Time is counted in whole minutes since midnight of day 0.               *)
(***************************************************************************)
EXTENDS Integers, Sequences, FiniteSets, TLC

VARIABLES
  cfg,       \* VSMScheduler._config: [world, server, offset]
  now,       \* wall clock, minutes since midnight of day 0
  sched,     \* VSMScheduler._scheduler: "none", "created" (not running), "running"
  jobs,      \* the job table: job id -> [kind, hours, minute, rundate, nrt]
  running,   \* job ids with an instance executing in the executor pool
  adv,       \* the RPC context inside VSMScheduler.advance_jobs
  nadv,      \* number of advance_jobs calls made so far
  ev,        \* the last operation performed in the scheduler part and its result
  bk,        \* the backup cycle: position, collaborator calls, outcome
  dt,        \* the downtime record: [stop, start, last]
  jl,        \* the last run of an announcement or world-backup job function
  pidFile,   \* content of vsm-scheduler.pid: NoFile or a process id
  readyFile, \* whether vsm-scheduler.ready exists
  srcFiles,  \* whether the installation's critical files exist
  port,      \* owner of the RPC host:port: NoProc or a process id
  dm,        \* daemon processes: pid -> [st, rpc, sig, deleted, log, code]
  cli,       \* front-end invocations: client -> [cmd, pc, pid, child, out]
  dev,       \* the last operation performed in the daemon part
  rpc        \* the RPC listener's accept loop and the exchange with its peer

schedVars == <<cfg, now, sched, jobs, running, adv, nadv, ev>>
backupVars == <<bk, dt, jl>>
daemonVars == <<pidFile, readyFile, srcFiles, port, dm, cli, dev, rpc>>
vars == <<schedVars, backupVars, daemonVars>>

----------------------------------------------------------------------------
(* Bounds of the model *)

\* largest interval value (hours) drawn for the configuration
MaxInterval == 25
\* largest offset value (hours) drawn for the configuration
MaxOffset == 24
\* number of advance_jobs calls in one behaviour
MaxAdvances == 1
\* the clock stops advancing at this many hours after midnight of day 0
MaxHours == 2
\* number of daemon processes that can be spawned in one behaviour
MaxDaemons == 2
\* number of front-end invocations (vsm-scheduler start / stop) that run concurrently
MaxClients == 2
\* number of backup cycles in one behaviour
MaxCycles == 2
\* the clock of the backup cycle stops at this value
MaxClock == 3

----------------------------------------------------------------------------
(* Time *)

\* job.next_run_time is None
NoTime == -1

HOUR == 60
DAY == 1440

HourOf(t) == (t \div HOUR) % 24
MinuteOf(t) == t % HOUR
\* datetime.replace(hour=h, minute=0, second=0, microsecond=0)
ReplaceHour(t, h) == (t \div DAY) * DAY + h * HOUR

Min(S) == CHOOSE x \in S : \A y \in S : x <= y

RECURSIVE SortedSeq(_)
\* sorted(S) for a finite set of integers
SortedSeq(S) == IF S = {} THEN <<>> ELSE <<Min(S)>> \o SortedSeq(S \ {Min(S)})

Range(s) == {s[i] : i \in DOMAIN s}

----------------------------------------------------------------------------
(* Hour sets computed by VSMScheduler.start *)

\* a hour set that misses the last backup of the day
HourIndexes_Short(interval) == 0 .. ((24 \div interval) - 2)

\* range(24 // interval)
HourIndexes(interval) == 0 .. ((24 \div interval) - 1)

\* hours counted on from the offset without wrapping around midnight
BackupHours_NoWrap(interval, offset) ==
  IF interval > 0
    THEN {offset + i * interval : i \in HourIndexes(interval)}
    ELSE {}

\* {(offset_hours + i * interval) % 24 for i in range(24 // interval)} if interval > 0 else set()
BackupHours(interval, offset) ==
  IF interval > 0
    THEN {(offset + i * interval) % 24 : i \in HourIndexes(interval)}
    ELSE {}

ServerBackupHours(c) == BackupHours(c.server, c.offset)
WorldBackupHours(c) == BackupHours(c.world, c.offset)
\* a world job that keeps the hours of the server backup
WorldOnlyHours_All(c) == WorldBackupHours(c)

\* world_only_hours = world_backup_hours - server_backup_hours
WorldOnlyHours(c) == WorldBackupHours(c) \ ServerBackupHours(c)

\* ",".join(str(h) for h in sorted(hours)): the hour expression handed to CronTrigger,
\* kept as the sequence of its comma-separated fields
HoursStr(hours) == SortedSeq(hours)

\* CronTrigger(hour=expr): an empty expression, or a field outside 0..23, is rejected
CronAccepts(expr) == Len(expr) > 0 /\ \A i \in DOMAIN expr : expr[i] \in 0 .. 23
\* the hours at which a cron trigger built from expr fires
CronHours(expr) == Range(expr)

----------------------------------------------------------------------------
(* The job table (APScheduler jobs as used by scheduler.py) *)

\* ANNOUNCEMENT_INTERVALS = [30, 15, 10, 5, 2, 1]
ANNOUNCEMENT_INTERVALS == <<30, 15, 10, 5, 2, 1>>

Leads == Range(ANNOUNCEMENT_INTERVALS)

\* id=f"announce_{minutes}"
AnnounceId(m) ==
  CASE m = 30 -> "announce_30"
    [] m = 15 -> "announce_15"
    [] m = 10 -> "announce_10"
    [] m = 5 -> "announce_5"
    [] m = 2 -> "announce_2"
    [] m = 1 -> "announce_1"

AnnounceIds == {AnnounceId(m) : m \in Leads}
PersistentIds == {"world_backup", "server_backup", "reschedule_announcements"}
\* a removal that takes every job of the table for an announcement job
IsAnnounce_Any(id) == TRUE

\* job.id.startswith("announce_")
IsAnnounce(id) == id \in AnnounceIds
\* args=[minutes] of an announcement job
LeadOf(id) == CHOOSE m \in Leads : AnnounceId(m) = id

\* a job of a CronTrigger(hour=expr, minute=m); next_run_time is set by scheduler.start()
CronJob(expr, m) ==
  [kind |-> "cron", hours |-> expr, minute |-> m, rundate |-> NoTime, nrt |-> NoTime]
\* a job of a "date" trigger with run_date=t
DateJob(t) ==
  [kind |-> "date", hours |-> <<>>, minute |-> 0, rundate |-> t, nrt |-> NoTime]

\* the empty job table
NoJobs == [id \in {} |-> CronJob(<<>>, 0)]

\* the record of the last operation: its name and what it returned
Event(op, ret) == [op |-> op, ret |-> ret]

\* the fire times of a cron trigger on the days around t
CronTimes(j, t) ==
  {d * DAY + h * HOUR + j.minute :
     d \in ((t \div DAY) - 1) .. ((t \div DAY) + 2), h \in CronHours(j.hours)}

\* trigger.get_next_fire_time(previous_fire_time, now): a cron trigger gives its
\* first fire time at or after min(now, previous + 1us), a date trigger its
\* run date the first time and None afterwards
NextFireTime(j, prev, t) ==
  IF j.kind = "date"
    THEN (IF prev = NoTime THEN j.rundate ELSE NoTime)
    ELSE LET start == IF prev = NoTime \/ t < prev THEN t ELSE prev + 1
         IN  Min({x \in CronTimes(j, start) : x >= start})

\* scheduler.start(): every pending job gets its first next_run_time
RealAddJobs(tbl, t) ==
  [id \in DOMAIN tbl |-> [tbl[id] EXCEPT !.nrt = NextFireTime(tbl[id], NoTime, t)]]

\* the table restricted to the ids in S
Restrict(tbl, S) == [id \in S |-> tbl[id]]
\* the table with job id set to j (added or replaced)
WithJob(tbl, id, j) == [x \in DOMAIN tbl \cup {id} |-> IF x = id THEN j ELSE tbl[x]]

----------------------------------------------------------------------------
(* VSMScheduler._schedule_next_announcements *)

\* backup_hours = sorted((offset_hours + i * server_interval) % 24 for i in range(24 // server_interval))
AnnBackupHours(c) ==
  SortedSeq({(c.offset + i * c.server) % 24 : i \in HourIndexes(c.server)})

\* the first hour of backup_hours greater than the current hour; today, or the
\* first backup hour tomorrow when none is left today
NextBackup(c, t) ==
  LET hs == AnnBackupHours(c)
      later == {i \in DOMAIN hs : hs[i] > HourOf(t)}
  IN  IF later = {}
        THEN ReplaceHour(t, hs[1]) + DAY
        ELSE ReplaceHour(t, hs[Min(later)])

\* an announcement that is also scheduled for the present minute
StillAhead_OrNow(announce_time, t) == announce_time >= t

\* announce_time > now
StillAhead(announce_time, t) == announce_time > t

\* the lead times whose announcement is added for a backup at next_backup
NewAnnouncements(next_backup, t) ==
  {m \in Leads : StillAhead(next_backup - m, t)}

\* the job table after _schedule_next_announcements ran at time t; added jobs get
\* their next_run_time at once when the scheduler is running
ScheduleNextAnnouncements(tbl, c, t, s) ==
  IF s = "none" \/ c.server <= 0
    THEN tbl
    ELSE LET nb == NextBackup(c, t)
             kept == {id \in DOMAIN tbl : ~IsAnnounce(id)}
             added == {AnnounceId(m) : m \in NewAnnouncements(nb, t)}
         IN  [id \in kept \cup added |->
                IF id \in added
                  THEN [DateJob(nb - LeadOf(id)) EXCEPT
                          !.nrt = IF s = "running" THEN nb - LeadOf(id) ELSE NoTime]
                  ELSE tbl[id]]

----------------------------------------------------------------------------
(* Initial values *)

AdvIdle == [pc |-> "idle", snap |-> <<>>, old |-> NoJobs, idx |-> 0, m |-> 0,
            read |-> NoTime, count |-> 0, gone |-> {}, dead |-> FALSE,
            touched |-> FALSE]

SchedInit(configs, times) ==
  /\ cfg \in configs
  /\ now \in times
  /\ sched = "none"
  /\ jobs = NoJobs
  /\ running = {}
  /\ adv = AdvIdle
  /\ nadv = 0
  /\ ev = Event("init", 0)

BkIdle == [pc |-> "idle", calls |-> <<>>, failed |-> "", recovered |-> FALSE,
           cycles |-> 0, clock |-> 0, began |-> 0]

\* no message was composed
NoMessage == [lead |-> 0, unit |-> "", est |-> NoTime, estUnit |-> ""]
\* no job function of an announcement or a world backup ran yet
JlIdle == [job |-> "none", players |-> 0, calls |-> <<>>, msg |-> NoMessage,
           log |-> "", raised |-> FALSE]

BackupInit ==
  /\ bk = BkIdle
  /\ dt = [stop |-> NoTime, start |-> NoTime, last |-> NoTime]
  /\ jl = JlIdle

\* the PID file does not exist
NoFile == 0
\* no process listens on the RPC port
NoProc == 0

DaemonPids == 1 .. MaxDaemons
ClientIds == 1 .. MaxClients

\* a process that was not spawned yet
Unborn == [st |-> "unborn", rpc |-> "none", sig |-> FALSE, deleted |-> FALSE,
           log |-> <<>>, code |-> 0]
\* a front end that runs no command
CliIdle == [cmd |-> "none", pc |-> "idle", pid |-> NoFile, child |-> NoProc,
            out |-> "none"]

\* the answer of a client call that was not made
NoReturn == [type |-> "none", msg |-> "", n |-> 0]
\* no listener, and no peer
RpcIdle == [srv |-> "down", cl |-> "idle", method |-> "none", fault |-> "none",
            link |-> "none", wire |-> "none", val |-> 0, ret |-> NoReturn,
            during |-> "idle", closed |-> FALSE, blocked |-> FALSE,
            held |-> <<>>, text |-> <<>>, got |-> <<>>]

DaemonInit ==
  /\ pidFile = NoFile
  /\ readyFile = FALSE
  /\ srcFiles = TRUE
  /\ port = NoProc
  /\ dm = [d \in DaemonPids |-> Unborn]
  /\ cli = [c \in ClientIds |-> CliIdle]
  /\ dev = Event("init", 0)
  /\ rpc = RpcIdle

----------------------------------------------------------------------------
(* VSMScheduler.start, stop, get_state *)

\* whether the RPC context is inside advance_jobs
AdvActive(a) == a.pc /= "idle"

\* What a change of the job table by another context means for an advance_jobs
\* call in progress: the job objects of its snapshot that left the table keep the
\* next_run_time they had (removed: the ids that leave; dead: their scheduler
\* was shut down)
Disturbed(a, removed, dead) ==
  IF AdvActive(a)
    THEN [a EXCEPT
            !.old = [id \in DOMAIN a.old |->
                       IF id \in a.gone \/ id \notin DOMAIN jobs THEN a.old[id] ELSE jobs[id]],
            !.gone = a.gone \cup (removed \cap DOMAIN a.old),
            !.dead = a.dead \/ dead,
            !.touched = TRUE]
    ELSE a

\* the jobs registered by start() before the registration of the server-backup job
WorldJobs(c) ==
  IF c.world > 0 /\ WorldOnlyHours(c) /= {}
    THEN WithJob(NoJobs, "world_backup", CronJob(HoursStr(WorldOnlyHours(c)), 0))
    ELSE NoJobs

\* whether a CronTrigger construction of start() raises
StartRaises(c) == c.server > 0 /\ ~CronAccepts(HoursStr(ServerBackupHours(c)))

\* a registration that puts the reschedule job at the minute of the backup
RegisteredJobs_SameMinute(c, t) ==
  IF c.server > 0
    THEN LET expr == HoursStr(ServerBackupHours(c))
             t2 == WithJob(WorldJobs(c), "server_backup", CronJob(expr, 0))
             t3 == ScheduleNextAnnouncements(t2, c, t, "created")
         IN  WithJob(t3, "reschedule_announcements", CronJob(expr, 0))
    ELSE WorldJobs(c)

\* the jobs registered by a start() that does not raise, before scheduler.start()
RegisteredJobs(c, t) ==
  IF c.server > 0
    THEN LET expr == HoursStr(ServerBackupHours(c))
             t2 == WithJob(WorldJobs(c), "server_backup", CronJob(expr, 0))
             t3 == ScheduleNextAnnouncements(t2, c, t, "created")
         IN  WithJob(t3, "reschedule_announcements", CronJob(expr, 1))
    ELSE WorldJobs(c)

\* a start() that always registers its jobs again
AlreadyRunning_Never(s) == FALSE

\* a guard of start() that takes every scheduler object for a running one
AlreadyRunning_AnyScheduler(s) == s /= "none"

\* "if self._scheduler is not None and self._scheduler.running: return"
AlreadyRunning(s) == s = "running"

\* start(config): a no-op on a running engine; else the configuration is kept, and
\* a failed registration leaves a scheduler object that was never started
StartWith(c) ==
  /\ IF AlreadyRunning(sched)
       THEN /\ UNCHANGED <<cfg, sched, jobs, adv>>
            /\ ev' = Event("start_noop", 0)
       ELSE /\ cfg' = c
            /\ adv' = Disturbed(adv, DOMAIN jobs, TRUE)
            /\ IF StartRaises(c)
                 THEN /\ sched' = "created"
                      /\ jobs' = WorldJobs(c)
                      /\ ev' = Event("start_raised", 0)
                 ELSE /\ sched' = "running"
                      /\ jobs' = RealAddJobs(RegisteredJobs(c, now), now)
                      /\ ev' = Event("start", 0)
  /\ UNCHANGED <<now, running, nadv>>
  /\ UNCHANGED <<backupVars, daemonVars>>

\* start(config) with the configuration the engine already holds
Start == StartWith(cfg)

\* a stop() that keeps the job table
Stop_KeepsJobs ==
  /\ sched' = "none"
  /\ ev' = Event(IF sched = "running" THEN "stop" ELSE "stop_noop", 0)
  /\ UNCHANGED <<cfg, now, jobs, running, adv, nadv>>
  /\ UNCHANGED <<backupVars, daemonVars>>

\* stop(): shutdown(wait=False) raises on a scheduler that is not running, and then
\* the scheduler object is kept
Stop ==
  /\ CASE sched = "running" ->
            /\ sched' = "none"
            /\ jobs' = NoJobs
            /\ adv' = Disturbed(adv, DOMAIN jobs, TRUE)
            /\ ev' = Event("stop", 0)
       [] sched = "created" ->
            /\ UNCHANGED <<sched, jobs, adv>>
            /\ ev' = Event("stop_raised", 0)
       [] sched = "none" ->
            /\ UNCHANGED <<sched, jobs, adv>>
            /\ ev' = Event("stop_noop", 0)
  /\ UNCHANGED <<cfg, now, running, nadv>>
  /\ UNCHANGED <<backupVars, daemonVars>>

\* a state that reports every scheduler object as running
GetState_AnyScheduler == IF sched /= "none" THEN "running" ELSE "stopped"

\* a state that reports an engine as paused while a backup cycle is in progress
GetState_PausedInCycle ==
  IF sched = "running"
    THEN (IF bk.pc \notin {"idle", "returned"} THEN "paused" ELSE "running")
    ELSE "stopped"

\* get_state()
GetState == IF sched = "running" THEN "running" ELSE "stopped"

\* class SchedulerState: the values of the enum
SchedulerState == {"stopped", "running", "paused"}

\* the number that stands for state.value in the reply of get_status
StateCode(state) ==
  CASE state = "stopped" -> 0
    [] state = "running" -> 1
    [] state = "paused" -> 2

----------------------------------------------------------------------------
(* The hour sets registered by start(), for every configuration *)

AllConfigs ==
  [world : -1 .. MaxInterval, server : -1 .. MaxInterval, offset : -1 .. MaxOffset]

InitHours == SchedInit(AllConfigs, {0}) /\ BackupInit /\ DaemonInit
NextHours == Start \/ Stop
SpecHours == InitHours /\ [][NextHours]_vars

\* the server intervals that divide the day
DayDivisors == {1, 2, 3, 4, 6, 8, 12, 24}

\* C1: for server_interval in {1,2,3,4,6,8,12,24} and 0 <= offset < server_interval,
\* the server-backup hour set registered by start() has exactly 24/server_interval
\* elements, all distinct, all in [0,24), and is
\* {(offset + i*server_interval) mod 24 : 0 <= i < 24/server_interval}.
C1_ServerHourSet ==
  (sched = "running" /\ cfg.server \in DayDivisors /\ cfg.offset \in 0 .. (cfg.server - 1)) =>
    /\ "server_backup" \in DOMAIN jobs
    /\ LET expr == jobs["server_backup"].hours
           H == CronHours(expr)
       IN  /\ Len(expr) = 24 \div cfg.server
           /\ Cardinality(H) = 24 \div cfg.server
           /\ H \subseteq 0 .. 23
           /\ H = {(cfg.offset + i * cfg.server) % 24 : i \in 0 .. ((24 \div cfg.server) - 1)}
           /\ H = {h \in 0 .. 23 : h % cfg.server = cfg.offset}

C1_Witness ==
  /\ sched = "running"
  /\ cfg.server = 8 /\ cfg.offset = 5
  /\ "server_backup" \in DOMAIN jobs
  /\ jobs["server_backup"].hours = <<5, 13, 21>>

\* C2: for every configuration start() accepts, the hours of the registered
\* world-backup job are disjoint from the hours of the server-backup job, and from
\* the server-backup hour set of the configuration.
C2_WorldOnlyDisjoint ==
  (sched = "running" /\ "world_backup" \in DOMAIN jobs) =>
    \A h \in CronHours(jobs["world_backup"].hours) :
      /\ "server_backup" \in DOMAIN jobs => h \notin CronHours(jobs["server_backup"].hours)
      /\ cfg.server > 0 =>
           \A i \in 0 .. ((24 \div cfg.server) - 1) : h /= (cfg.offset + i * cfg.server) % 24

C2_Witness ==
  /\ sched = "running"
  /\ cfg.world = 1 /\ cfg.server = 6 /\ cfg.offset = 7
  /\ "world_backup" \in DOMAIN jobs /\ "server_backup" \in DOMAIN jobs
  /\ Len(jobs["world_backup"].hours) = 20
  /\ CronHours(jobs["server_backup"].hours) = {1, 7, 13, 19}

\* the operations of the engine after which get_state() reports Running
RunningOps == {"start", "start_noop"}

\* C12: get_state() reports Stopped before any start() and after every stop(),
\* and Running after a successful start(): for every sequence of start() and
\* stop() calls the state reported is the one the transitions
\* Stopped --start--> Running and Running --stop--> Stopped give.
C12_StateTransitions ==
  /\ ev.op = "init" => GetState = "stopped"
  /\ ev.op \in {"stop", "stop_noop", "stop_raised"} => GetState = "stopped"
  /\ ev.op \in RunningOps => GetState = "running"
  /\ ev.op = "start_raised" => GetState = "stopped"

C12_Witness ==
  /\ ev.op = "stop"
  /\ GetState = "stopped"
  /\ jobs = NoJobs
  /\ cfg = [world |-> 1, server |-> 6, offset |-> 0]

\* the hour set of a job family: every interval-th hour of the day from the offset
C21_Hours(interval, offset) ==
  IF interval > 0
    THEN {h \in 0 .. 23 : \E i \in 0 .. ((24 \div interval) - 1) : h = (offset + i * interval) % 24}
    ELSE {}

\* whether job id of the table is a cron job firing at minute m of exactly the hours H
C21_CronAt(id, H, m) ==
  /\ id \in DOMAIN jobs
  /\ jobs[id].kind = "cron"
  /\ CronHours(jobs[id].hours) = H
  /\ jobs[id].minute = m

\* C21: after a start() that succeeded, the persistent jobs are exactly a
\* world_backup job at minute 0 of the world-only hours, a server_backup job at
\* minute 0 of the server hour set and a reschedule_announcements job at minute 1 of
\* the server hour set; a family without hours is absent, and with
\* server_interval = 0 there is no reschedule job and no announcement job. For
\* server_interval = 6, offset = 0, world_interval = 1 the server job covers
\* {0,6,12,18} and the world job all other hours.
C21_JobTable ==
  ev.op = "start" =>
    LET Hs == C21_Hours(cfg.server, cfg.offset)
        Hw == C21_Hours(cfg.world, cfg.offset) \ Hs
    IN  /\ DOMAIN jobs \subseteq PersistentIds \cup AnnounceIds
        /\ IF Hw /= {} THEN C21_CronAt("world_backup", Hw, 0)
                       ELSE "world_backup" \notin DOMAIN jobs
        /\ IF cfg.server > 0
             THEN /\ C21_CronAt("server_backup", Hs, 0)
                  /\ C21_CronAt("reschedule_announcements", Hs, 1)
             ELSE DOMAIN jobs \subseteq {"world_backup"}
        /\ cfg.world = 0 => "world_backup" \notin DOMAIN jobs
        /\ cfg.server = 0 => DOMAIN jobs \cap (AnnounceIds \cup {"server_backup", "reschedule_announcements"}) = {}
        /\ cfg = [world |-> 1, server |-> 6, offset |-> 0] =>
             /\ CronHours(jobs["server_backup"].hours) = {0, 6, 12, 18}
             /\ CronHours(jobs["world_backup"].hours) = (0 .. 23) \ {0, 6, 12, 18}

C21_Witness ==
  /\ ev.op = "start"
  /\ cfg = [world |-> 1, server |-> 6, offset |-> 0]
  /\ jobs["server_backup"].hours = <<0, 6, 12, 18>>
  /\ Len(jobs["world_backup"].hours) = 20
  /\ jobs["reschedule_announcements"].minute = 1

\* C22: offsets are taken modulo the interval: for every server_interval that
\* divides 24 and every offset in [0,24), the server hour set computed for the
\* offset (by start() and by _schedule_next_announcements, and as registered) is
\* the one computed for offset mod server_interval, and its first hour, the
\* effective offset, is offset mod server_interval, in [0, server_interval).
C22_OffsetModInterval ==
  (cfg.server \in DayDivisors /\ cfg.offset \in 0 .. 23) =>
    LET eff == cfg.offset % cfg.server
        reduced == [cfg EXCEPT !.offset = eff]
    IN  /\ ServerBackupHours(cfg) = ServerBackupHours(reduced)
        /\ AnnBackupHours(cfg) = AnnBackupHours(reduced)
        /\ Min(ServerBackupHours(cfg)) = eff
        /\ AnnBackupHours(cfg)[1] = eff
        /\ eff \in 0 .. (cfg.server - 1)
        /\ sched = "running" =>
             /\ jobs["server_backup"].hours = HoursStr(ServerBackupHours(reduced))
             /\ jobs["server_backup"].hours[1] = eff

C22_Witness ==
  /\ sched = "running"
  /\ cfg.server = 6 /\ cfg.offset = 23
  /\ jobs["server_backup"].hours = <<5, 11, 17, 23>>

----------------------------------------------------------------------------
(* The timer context of the scheduler (BackgroundScheduler._process_jobs) and  *)
(* the executor pool that runs the fired jobs                                  *)

\* the jobs whose next_run_time has come
DueJobs == {id \in DOMAIN jobs : jobs[id].nrt /= NoTime /\ jobs[id].nrt <= now}

RECURSIVE LastRunTime(_, _, _)
\* the last of the run times of job j from r up to t (the run times are coalesced)
LastRunTime(j, r, t) ==
  LET n == NextFireTime(j, r, t)
  IN  IF n /= NoTime /\ n <= t THEN LastRunTime(j, n, t) ELSE r

\* a run time older than the misfire grace time (one second) is skipped as missed
Missed(run_time, t) == t > run_time

\* a timer that starts an instance of every due job
Submitted_NoLimit ==
  {id \in DueJobs : ~Missed(LastRunTime(jobs[id], jobs[id].nrt, now), now)}

\* the due jobs of which an instance starts: not one that is still running
\* (max_instances is 1) and not one whose run time was missed
Submitted ==
  {id \in DueJobs :
     id \notin running /\ ~Missed(LastRunTime(jobs[id], jobs[id].nrt, now), now)}

\* the next_run_time of a due job after it was processed; NoTime removes the job
NextRunAfter(id) ==
  NextFireTime(jobs[id], LastRunTime(jobs[id], jobs[id].nrt, now), now)

\* one pass of the timer context over the due jobs, under the job store lock
ProcessJobs ==
  /\ sched = "running"
  /\ DueJobs /= {}
  /\ LET finished == {id \in DueJobs : NextRunAfter(id) = NoTime}
     IN  /\ jobs' = [id \in DOMAIN jobs \ finished |->
                       IF id \in DueJobs
                         THEN [jobs[id] EXCEPT !.nrt = NextRunAfter(id)]
                         ELSE jobs[id]]
         /\ adv' = Disturbed(adv, finished, FALSE)
  /\ running' = running \cup Submitted
  /\ ev' = Event("process", Cardinality(Submitted))
  /\ UNCHANGED <<cfg, now, sched, nadv>>
  /\ UNCHANGED <<backupVars, daemonVars>>

\* the instance of job id in the executor pool runs its function and ends; the
\* reschedule job runs _schedule_next_announcements on the current scheduler
RunJob(id) ==
  /\ id \in running
  /\ running' = running \ {id}
  /\ IF id = "reschedule_announcements"
       THEN /\ jobs' = ScheduleNextAnnouncements(jobs, cfg, now, sched)
            /\ adv' = Disturbed(adv, {x \in DOMAIN jobs : IsAnnounce(x)}, FALSE)
            /\ ev' = Event("reschedule", 0)
       ELSE /\ UNCHANGED <<jobs, adv>>
            /\ ev' = Event("ran", 0)
  /\ UNCHANGED <<cfg, now, sched, nadv>>
  /\ UNCHANGED <<backupVars, daemonVars>>

\* the jobs whose function returns at once, next to the minutes between two fire
\* times: an announcement and the rescheduling of the announcements
QuickJobs == AnnounceIds \cup {"reschedule_announcements"}

\* time passes until the next job is due; a call of advance_jobs and the quick
\* jobs take no time at this scale
Tick ==
  /\ sched = "running"
  /\ DueJobs = {}
  /\ ~AdvActive(adv)
  /\ running \cap QuickJobs = {}
  /\ LET ahead == {jobs[id].nrt : id \in {x \in DOMAIN jobs : jobs[x].nrt /= NoTime}}
     IN  /\ ahead /= {}
         /\ Min(ahead) <= MaxHours * HOUR
         /\ now' = Min(ahead)
  /\ ev' = Event("tick", 0)
  /\ UNCHANGED <<cfg, sched, jobs, running, adv, nadv>>
  /\ UNCHANGED <<backupVars, daemonVars>>

----------------------------------------------------------------------------
(* VSMScheduler.advance_jobs, called from the RPC context *)

\* the order of the job ids among jobs of equal next_run_time
IdOrder ==
  <<"announce_1", "announce_10", "announce_15", "announce_2", "announce_30",
    "announce_5", "reschedule_announcements", "server_backup", "world_backup">>
IdIndex(id) == CHOOSE i \in DOMAIN IdOrder : IdOrder[i] = id

RECURSIVE JobList(_, _)
\* scheduler.get_jobs(): the jobs of S in the order of their next_run_time
JobList(tbl, S) ==
  IF S = {} THEN <<>>
  ELSE LET first == CHOOSE id \in S : \A x \in S :
                      \/ tbl[id].nrt < tbl[x].nrt
                      \/ tbl[id].nrt = tbl[x].nrt /\ IdIndex(id) <= IdIndex(x)
       IN  <<first>> \o JobList(tbl, S \ {first})

\* new_time = job.next_run_time - timedelta(minutes=minutes)
NewTime(t, m) == t - m

\* the position after job number i of the snapshot was handled
AdvStep(a, i) == IF i >= Len(a.snap) THEN "done" ELSE "read"

\* advance_jobs(m) is entered: without a scheduler it returns 0, else it takes
\* the list of jobs. The jobs of a scheduler that was created and never started
\* are pending and have no next_run_time attribute: the read of it in the loop
\* raises AttributeError at the first job.
AdvCall(m) ==
  /\ adv.pc = "idle"
  /\ nadv < MaxAdvances
  /\ nadv' = nadv + 1
  /\ IF sched /= "running"
       THEN /\ adv' = AdvIdle
            /\ ev' = Event("advance_return",
                           IF sched = "created" /\ DOMAIN jobs /= {} THEN -1 ELSE 0)
       ELSE /\ adv' = [AdvIdle EXCEPT
                         !.pc = AdvStep([snap |-> JobList(jobs, DOMAIN jobs)], 0),
                         !.snap = JobList(jobs, DOMAIN jobs),
                         !.old = jobs, !.m = m]
            /\ ev' = Event("advance_call", m)
  /\ UNCHANGED <<cfg, now, sched, jobs, running>>
  /\ UNCHANGED <<backupVars, daemonVars>>

\* the value of job.next_run_time that advance_jobs reads for snapshot job id
JobObjectTime(a, id) == IF id \in a.gone THEN a.old[id].nrt ELSE jobs[id].nrt

\* "if job.next_run_time:" and the computation of new_time
AdvRead ==
  /\ adv.pc = "read"
  /\ LET id == adv.snap[adv.idx + 1]
         t == JobObjectTime(adv, id)
     IN  IF t = NoTime
           THEN adv' = [adv EXCEPT !.idx = @ + 1, !.pc = AdvStep(adv, adv.idx + 1)]
           ELSE adv' = [adv EXCEPT !.pc = "write", !.read = t]
  /\ ev' = Event("advance_read", 0)
  /\ UNCHANGED <<cfg, now, sched, jobs, running, nadv>>
  /\ UNCHANGED <<backupVars, daemonVars>>

\* the next_run_time that job.modify stores
Modified(a, id) == NewTime(a.read, a.m)

\* job.modify(next_run_time=new_time): looks the job up by its id in its scheduler
\* and raises JobLookupError when it is not there (any more)
AdvWrite ==
  /\ adv.pc = "write"
  /\ LET id == adv.snap[adv.idx + 1]
     IN  IF adv.dead
           THEN /\ adv' = [adv EXCEPT !.idx = @ + 1, !.count = @ + 1,
                                      !.pc = AdvStep(adv, adv.idx + 1)]
                /\ UNCHANGED jobs
                /\ ev' = Event("advance_write_dead", 0)
           ELSE IF id \notin DOMAIN jobs
             THEN /\ adv' = [adv EXCEPT !.pc = "raised"]
                  /\ UNCHANGED jobs
                  /\ ev' = Event("advance_raised", 0)
             ELSE /\ jobs' = [jobs EXCEPT ![id].nrt = Modified(adv, id)]
                  /\ adv' = [adv EXCEPT !.idx = @ + 1, !.count = @ + 1,
                                        !.pc = AdvStep(adv, adv.idx + 1)]
                  /\ ev' = Event("advance_write", 0)
  /\ UNCHANGED <<cfg, now, sched, running, nadv>>
  /\ UNCHANGED <<backupVars, daemonVars>>

\* advance_jobs returns its count, or its exception propagates, to the RPC layer
AdvReturn ==
  /\ adv.pc \in {"done", "raised"}
  /\ adv' = AdvIdle
  /\ ev' = Event("advance_return", IF adv.pc = "done" THEN adv.count ELSE -1)
  /\ UNCHANGED <<cfg, now, sched, jobs, running, nadv>>
  /\ UNCHANGED <<backupVars, daemonVars>>

\* the minutes values of the advance_jobs calls
AdvMinutes == {1, 31}

\* the configurations and the start times of the engine whose run is followed
SchedConfigs ==
  { [world |-> 1, server |-> 2, offset |-> 1],
    [world |-> 0, server |-> 24, offset |-> 0] }
StartTimes == {30, 45, 59}

InitSched == SchedInit(SchedConfigs, StartTimes) /\ BackupInit /\ DaemonInit
NextSched ==
  \/ sched = "none" /\ Start
  \/ ProcessJobs
  \/ \E id \in PersistentIds \cup AnnounceIds : RunJob(id)
  \/ Tick
  \/ \E m \in AdvMinutes : AdvCall(m)
  \/ AdvRead
  \/ AdvWrite
  \/ AdvReturn
SpecSched == InitSched /\ [][NextSched]_vars

\* the job table and the count after a call of advance_jobs(m), against the job
\* table at the call: every next_run_time T is T - m, the jobs without one are as
\* they were, and the count is the number of jobs that had one
AdvanceShifted ==
  /\ DOMAIN jobs = DOMAIN adv.old
  /\ \A id \in DOMAIN adv.old :
       IF adv.old[id].nrt = NoTime
         THEN jobs[id] = adv.old[id]
         ELSE jobs[id] = [adv.old[id] EXCEPT !.nrt = adv.old[id].nrt - adv.m]
  /\ adv.count = Cardinality({id \in DOMAIN adv.old : adv.old[id].nrt /= NoTime})

\* a call of advance_jobs during which no other context changes the job table
\* shifts every job and counts them
AdvanceAloneShiftsAll ==
  (adv.pc = "done" /\ ~adv.touched /\ sched = "running") => AdvanceShifted

\* C8: advance_jobs(m) on a running engine returns, and then every job whose
\* next_run_time was T at the call has next_run_time T - m, the jobs without a
\* next_run_time are as they were, and the count is the number of jobs that had a
\* next_run_time at the call.
C8_AdvanceShiftsAll ==
  (adv.pc \in {"done", "raised"} /\ sched = "running") =>
    /\ adv.pc = "done"
    /\ AdvanceShifted

\* C9: the update of a job's next_run_time by advance_jobs is atomic with respect
\* to the firing check of the timer context: the next_run_time that advance_jobs
\* read is still the job's next_run_time when the new one is stored.
C9_AdvanceAtomic ==
  adv.pc = "write" =>
    LET id == adv.snap[adv.idx + 1]
    IN  id \in DOMAIN jobs => jobs[id].nrt = adv.read

\* the first whole hour after the current hour at which the server-backup job fires
C10_NextBackup ==
  Min({t \in {((now \div 60) + k) * 60 : k \in 1 .. 24} :
         ((t \div 60) % 24) \in CronHours(jobs["server_backup"].hours)})

\* C10: after _schedule_next_announcements ran at time now (in start() or as the
\* reschedule job), with the next backup at T, the announcement jobs are exactly
\* announce_L at T - L for the lead times L in {30,15,10,5,2,1} with T - L > now;
\* none is scheduled at or before now.
C10_AnnouncementsAhead ==
  (ev.op \in {"start", "reschedule"} /\ sched = "running" /\ cfg.server > 0) =>
    /\ \A L \in {30, 15, 10, 5, 2, 1} :
         /\ AnnounceId(L) \in DOMAIN jobs <=> C10_NextBackup - L > now
         /\ AnnounceId(L) \in DOMAIN jobs =>
              /\ jobs[AnnounceId(L)].kind = "date"
              /\ jobs[AnnounceId(L)].rundate = C10_NextBackup - L
              /\ jobs[AnnounceId(L)].nrt = C10_NextBackup - L
    /\ \A id \in DOMAIN jobs : jobs[id].kind = "date" => jobs[id].rundate > now

C10_Witness ==
  /\ ev.op = "reschedule" /\ sched = "running"
  /\ now = 30
  /\ "announce_30" \notin DOMAIN jobs
  /\ "announce_15" \in DOMAIN jobs /\ jobs["announce_15"].rundate = 45
  /\ "announce_1" \in DOMAIN jobs /\ jobs["announce_1"].rundate = 59

\* C24: the announcement jobs target the next server backup: after start() and
\* after every firing of the reschedule job, also one whose time advance_jobs
\* shifted, every scheduled job announce_L has its run time at the next_run_time
\* of the server_backup job minus L minutes.
C24_AnnouncementsTargetBackup ==
  (ev.op \in {"start", "reschedule"} /\ sched = "running" /\ "server_backup" \in DOMAIN jobs) =>
    \A id \in DOMAIN jobs :
      IsAnnounce(id) =>
        /\ jobs[id].rundate = jobs["server_backup"].nrt - LeadOf(id)
        /\ jobs[id].nrt = jobs["server_backup"].nrt - LeadOf(id)

\* the announcement jobs of a job table (the job store holds one job per id)
C25_Announcements(tbl) == {id \in DOMAIN tbl : IsAnnounce(id)}

\* C25: recomputing the announcements never produces duplicates: in every state
\* there is at most one announcement job per lead time and at most six in all, and
\* a recomputation by the reschedule job leaves the persistent jobs world_backup,
\* server_backup and reschedule_announcements in the table as they were.
C25_NoDuplicates ==
  [][/\ Cardinality(C25_Announcements(jobs')) <= 6
     /\ \A L \in {30, 15, 10, 5, 2, 1} :
          Cardinality({id \in C25_Announcements(jobs') : LeadOf(id) = L}) <= 1
     /\ \A id \in C25_Announcements(jobs') : jobs'[id].kind = "date"
     /\ ev'.op = "reschedule" =>
          \A id \in {"world_backup", "server_backup", "reschedule_announcements"} :
            id \in DOMAIN jobs => (id \in DOMAIN jobs' /\ jobs'[id] = jobs[id])]_vars

C25_Witness ==
  /\ ev.op = "reschedule"
  /\ now = 60
  /\ nadv = 1
  /\ Cardinality(C25_Announcements(jobs)) = 6
  /\ {"world_backup", "server_backup", "reschedule_announcements"} \subseteq DOMAIN jobs
  /\ jobs["announce_30"].rundate = 150

\* C18: within one job the executions never overlap: every instance that a pass
\* of the timer context starts is an instance of a job of which none is running,
\* also when advance_jobs has pulled the next run time of a running job to now.
C18_NoOverlap ==
  [][(ev'.op = "process" /\ jobs' /= jobs) =>
       Cardinality(running') = Cardinality(running) + ev'.ret]_vars

C18_Witness ==
  /\ ev = Event("process", 1)
  /\ now = 60
  /\ nadv = 1
  /\ running = {"server_backup", "reschedule_announcements"}
  /\ jobs["server_backup"].nrt = 180

----------------------------------------------------------------------------
(* VSMScheduler._run_server_backup: the server backup cycle *)

\* the collaborator calls of the try block, in the order of the code
CycleSteps ==
  <<"record_stop_time", "stop", "server_backup", "cleanup_after_server_backup",
    "prune_old_backups", "start", "record_start_time">>

\* the position of the cycle before step number i, "returned" after the last
StepPc(i) == IF i > Len(CycleSteps) THEN "returned" ELSE CycleSteps[i]
StepIndex(pc) == CHOOSE i \in DOMAIN CycleSteps : CycleSteps[i] = pc

\* a failed cycle that leaves the server stopped
RecoveryCalls_None == <<>>

\* the collaborator calls of the except block: "Attempting to restart server..."
RecoveryCalls == <<"start">>

\* whether "except Exception: pass" around the recovery start swallows its failure
RecoverySwallowed == TRUE

\* record_stop_time: data["stop_time"] = now
RecordStop(d, t) == [d EXCEPT !.stop = t]
\* record_start_time: data["start_time"] = now, and the elapsed downtime when a
\* stop time is on record
RecordStart(d, t) ==
  IF d.stop /= NoTime
    THEN [d EXCEPT !.start = t, !.last = t - d.stop]
    ELSE [d EXCEPT !.start = t]

\* the server-backup job starts a cycle
BeginCycle ==
  /\ bk.pc \in {"idle", "returned"}
  /\ bk.cycles < MaxCycles
  /\ bk' = [BkIdle EXCEPT !.pc = StepPc(1), !.cycles = bk.cycles + 1,
                          !.clock = bk.clock, !.began = bk.clock]
  /\ UNCHANGED <<dt, jl>>
  /\ UNCHANGED <<schedVars, daemonVars>>

\* a cycle that logs the failure of a step and goes on with the next step
CycleStep_GoesOn(ok) ==
  /\ bk.pc \in Range(CycleSteps)
  /\ bk' = [bk EXCEPT !.calls = Append(@, bk.pc),
                      !.failed = IF ok THEN @ ELSE bk.pc,
                      !.pc = StepPc(StepIndex(bk.pc) + 1)]
  /\ dt' = CASE bk.pc = "record_stop_time" /\ ok -> RecordStop(dt, bk.clock)
             [] bk.pc = "record_start_time" /\ ok -> RecordStart(dt, bk.clock)
             [] OTHER -> dt
  /\ UNCHANGED jl
  /\ UNCHANGED <<schedVars, daemonVars>>

\* the next collaborator call of the try block returns (ok) or raises
CycleStep(ok) ==
  /\ bk.pc \in Range(CycleSteps)
  /\ IF ok
       THEN /\ bk' = [bk EXCEPT !.calls = Append(@, bk.pc),
                                !.pc = StepPc(StepIndex(bk.pc) + 1)]
            /\ dt' = CASE bk.pc = "record_stop_time" -> RecordStop(dt, bk.clock)
                       [] bk.pc = "record_start_time" -> RecordStart(dt, bk.clock)
                       [] OTHER -> dt
       ELSE /\ bk' = [bk EXCEPT !.calls = Append(@, bk.pc), !.failed = bk.pc,
                                !.pc = "except"]
            /\ UNCHANGED dt
  /\ UNCHANGED jl
  /\ UNCHANGED <<schedVars, daemonVars>>

\* an except block that records the start time after its recovery start
Recover_RecordsStart(ok) ==
  /\ bk.pc = "except"
  /\ bk' = [bk EXCEPT !.calls = @ \o RecoveryCalls,
                      !.recovered = ok,
                      !.pc = IF ok \/ RecoverySwallowed THEN "returned" ELSE "raised"]
  /\ dt' = IF ok THEN RecordStart(dt, bk.clock) ELSE dt
  /\ UNCHANGED jl
  /\ UNCHANGED <<schedVars, daemonVars>>

\* the except block: the failure is logged and the recovery calls are made; a
\* failure of theirs is swallowed
Recover(ok) ==
  /\ bk.pc = "except"
  /\ bk' = [bk EXCEPT !.calls = @ \o RecoveryCalls,
                      !.recovered = ok,
                      !.pc = IF ok \/ RecoverySwallowed THEN "returned" ELSE "raised"]
  /\ UNCHANGED <<dt, jl>>
  /\ UNCHANGED <<schedVars, daemonVars>>

\* time passes during a cycle
CycleTick ==
  /\ bk.pc \notin {"idle", "raised"}
  /\ bk.clock < MaxClock
  /\ bk' = [bk EXCEPT !.clock = @ + 1]
  /\ UNCHANGED <<dt, jl>>
  /\ UNCHANGED <<schedVars, daemonVars>>

InitBackup == SchedInit({[world |-> 1, server |-> 6, offset |-> 0]}, {0}) /\ BackupInit /\ DaemonInit
NextBackup_ ==
  \/ BeginCycle
  \/ \E ok \in BOOLEAN : CycleStep(ok)
  \/ \E ok \in BOOLEAN : Recover(ok)
  \/ CycleTick
SpecBackup == InitBackup /\ [][NextBackup_]_vars

\* the collaborator calls of a cycle in which step number k raised
C3_CallsWhenFailed(k) == SubSeq(CycleSteps, 1, k) \o <<"start">>

\* C3: in every execution of _run_server_backup in which a step raises, the
\* remaining steps are skipped, a server start is invoked afterwards as the
\* recovery action, a failure of that start is swallowed, and the cycle returns
\* without raising.
C3_RecoveryStart ==
  /\ bk.pc /= "raised"
  /\ (bk.pc = "returned" /\ bk.failed /= "") =>
       bk.calls = C3_CallsWhenFailed(StepIndex(bk.failed))
  /\ (bk.pc = "returned" /\ bk.failed = "") => bk.calls = CycleSteps

C3_Witness ==
  /\ bk.pc = "returned"
  /\ bk.failed = "server_backup"
  /\ ~bk.recovered
  /\ bk.calls = <<"record_stop_time", "stop", "server_backup", "start">>

\* the steps of a cycle in their order: record stop time, server stop, archive
\* creation, post-backup cleanup, retention pruning, server start, record start time
C23_Order ==
  <<"record_stop_time", "stop", "server_backup", "cleanup_after_server_backup",
    "prune_old_backups", "start", "record_start_time">>

\* the number of step k of the order
C23_Index(step) == CHOOSE k \in 1 .. 7 : C23_Order[k] = step

\* C23: a successful cycle invokes its seven steps exactly once each in their
\* order; at every moment of a cycle the steps invoked are the first steps of the
\* order, each once; when step k raises none of the steps after k is invoked, only
\* the recovery server start, and no step is invoked again.
C23_StepOrder ==
  /\ (bk.pc \notin {"idle"} /\ bk.failed = "") =>
       /\ Len(bk.calls) <= 7
       /\ bk.calls = SubSeq(C23_Order, 1, Len(bk.calls))
       /\ bk.pc = "returned" <=> Len(bk.calls) = 7
  /\ bk.failed /= "" =>
       LET k == C23_Index(bk.failed)
       IN  /\ SubSeq(bk.calls, 1, k) = SubSeq(C23_Order, 1, k)
           /\ bk.pc = "except" => Len(bk.calls) = k
           /\ bk.pc /= "except" =>
                /\ bk.pc = "returned"
                /\ Len(bk.calls) = k + 1
                /\ bk.calls[k + 1] = "start"

C23_Witness ==
  /\ bk.pc = "returned"
  /\ bk.failed = ""
  /\ bk.calls = C23_Order
  /\ bk.cycles = 2
  /\ dt.start /= NoTime /\ dt.last = dt.start - dt.stop

\* the step of a cycle in which record_start_time returns
C35_RecordsStart == bk.pc = "record_start_time" /\ bk'.pc = "returned"
\* the step in which the except block of a failed cycle is left
C35_Recovers == bk.pc = "except" /\ bk'.pc = "returned"

\* what holds of the downtime record in every step, whatever step failed
C35_Frame ==
  /\ (dt'.last /= dt.last \/ dt'.start /= dt.start) =>
       /\ C35_RecordsStart
       /\ bk'.failed = ""
  /\ C35_RecordsStart =>
       /\ dt.stop /= NoTime /\ dt.stop >= bk.began
       /\ dt'.stop = dt.stop
       /\ dt'.start = bk.clock
       /\ dt'.last = dt'.start - dt'.stop
       /\ dt'.last >= 0
  /\ dt'.stop /= dt.stop =>
       /\ bk.pc = "record_stop_time" /\ bk'.pc = "stop"
       /\ dt'.stop = bk.clock
  /\ C35_Recovers => dt' = dt

----------------------------------------------------------------------------
(* The engine with its jobs in the executor pool: start() and stop() at any    *)
(* time, the timer context, and the server backup cycle run by the instance of *)
(* the server-backup job                                                       *)

\* the job ids whose instance ends in one step
PlainJobs == (PersistentIds \cup AnnounceIds) \ {"server_backup"}

\* the instance of the server-backup job enters _run_server_backup
EngineBeginCycle ==
  /\ "server_backup" \in running
  /\ bk.pc = "idle"
  /\ BeginCycle

\* _run_server_backup returns to the executor pool: the instance ends
CycleReturn ==
  /\ "server_backup" \in running
  /\ bk.pc = "returned"
  /\ running' = running \ {"server_backup"}
  /\ bk' = [bk EXCEPT !.pc = "idle"]
  /\ ev' = Event("ran", bk.cycles)
  /\ UNCHANGED <<cfg, now, sched, jobs, adv, nadv, dt, jl>>
  /\ UNCHANGED daemonVars

\* the configurations and the start times of the engine whose instances are followed
EngineConfigs == {[world |-> 1, server |-> 1, offset |-> 0]}
EngineTimes == {45, 59}

\* stop() is followed by the exit of its process (background.py, run_scheduler):
\* an engine is started again only in a process without instances left
InitEngine == SchedInit(EngineConfigs, EngineTimes) /\ BackupInit /\ DaemonInit
NextEngine ==
  \/ (sched = "running" \/ running = {}) /\ Start
  \/ Stop
  \/ ProcessJobs
  \/ \E id \in PlainJobs : RunJob(id)
  \/ Tick
  \/ EngineBeginCycle
  \/ \E ok \in BOOLEAN : CycleStep(ok)
  \/ \E ok \in BOOLEAN : Recover(ok)
  \/ CycleReturn
SpecEngine == InitEngine /\ [][NextEngine]_vars

\* C11: start() on an engine that is already Running is a no-op: the job table
\* (its ids, its jobs and their count) and the state are as before the call, and
\* no job is registered a second time.
C11_StartIdempotent ==
  [][(sched = "running" /\ ev'.op \in {"start", "start_noop", "start_raised"}) =>
       /\ ev'.op = "start_noop"
       /\ jobs' = jobs
       /\ sched' = sched
       /\ running' = running]_vars

C11_Witness ==
  /\ ev.op = "start_noop"
  /\ sched = "running"
  /\ now = 50
  /\ "announce_10" \in DueJobs
  /\ Cardinality(DOMAIN jobs) = 6

\* the positions of a backup cycle in progress
InCycle == Range(CycleSteps) \cup {"except"}

\* C20: stop() cancels every pending job and only prevents future firings: the
\* stop empties the job table and leaves the running instances and the backup
\* cycle as they are; on a stopped engine no instance starts; and a backup cycle
\* in progress goes on to its end.
C20_StopCancelsPending ==
  [][/\ (sched = "running" /\ sched' = "none") =>
          (jobs' = NoJobs /\ running' = running /\ bk' = bk)
     /\ (sched /= "running" /\ sched' /= "running") =>
          (jobs' = jobs /\ running' \subseteq running)
     /\ sched' = "none" => jobs' = NoJobs
     /\ bk.pc \in InCycle => bk'.pc \in InCycle \cup {"returned"}]_vars

C20_Witness ==
  /\ ev.op = "stop"
  /\ sched = "none"
  /\ jobs = NoJobs
  /\ "server_backup" \in running
  /\ bk.pc = "returned"
  /\ bk.calls = CycleSteps

----------------------------------------------------------------------------
(* The engine started and stopped with changing configurations, one of which  *)
(* start() cannot register                                                    *)

\* the configurations handed to start(): intervals that disable a job family,
\* that divide the day, and one whose server hour set is empty
RestartConfigs ==
  [world : {0, 1}, server : {0, 6, MaxInterval}, offset : {0, 5}]
RestartTimes == {45}

InitRestart == SchedInit(RestartConfigs, RestartTimes) /\ BackupInit /\ DaemonInit
NextRestart ==
  \/ \E c \in RestartConfigs : (sched = "running" \/ running = {}) /\ StartWith(c)
  \/ Stop
  \/ ProcessJobs
  \/ \E id \in PersistentIds \cup AnnounceIds : RunJob(id)
  \/ Tick
  \/ \E m \in AdvMinutes : sched /= "running" /\ AdvCall(m)
SpecRestart == InitRestart /\ [][NextRestart]_vars

\* the calls of start() and of stop(), by their outcome
C28_StartOps == {"start", "start_noop", "start_raised"}
C29_StopOps == {"stop", "stop_noop", "stop_raised"}

\* C28: when the registration of a job fails during start() (a configuration
\* whose hour specification is empty or invalid) the failure is raised to the
\* caller and the engine is left Stopped: get_state() is Stopped and no timer
\* runs; a later start() with a valid configuration succeeds.
C28_FailedStartStopped ==
  [][/\ (ev'.op \in C28_StartOps /\ sched /= "running") =>
          (ev'.op = "start_raised" <=> (cfg'.server > 0 /\ 24 \div cfg'.server = 0))
     /\ ev'.op = "start_raised" =>
          /\ GetState' = "stopped"
          /\ sched' /= "running"
          /\ ~(ENABLED ProcessJobs)'
          /\ ~(ENABLED Tick)'
     /\ (sched = "created" /\ ev'.op \in C28_StartOps /\ cfg'.server \in {0, 6}) =>
          /\ ev'.op = "start"
          /\ GetState' = "running"
          /\ cfg'.server = 6 => {"server_backup", "reschedule_announcements"} \subseteq DOMAIN jobs'
          /\ \A id \in DOMAIN jobs' : jobs'[id].nrt /= NoTime]_vars

C28_Witness ==
  /\ ev.op = "start_raised"
  /\ cfg.world = 1 /\ cfg.server = MaxInterval
  /\ GetState = "stopped"
  /\ sched = "created"
  /\ DOMAIN jobs = {"world_backup"}

\* C29: stop() is idempotent and cancels everything: after stop() the job table
\* is empty and the state is Stopped, and stop() raises nothing; a second stop(),
\* or a stop() on a never-started engine, changes nothing; a start() after stop()
\* registers the full job table of the configuration again.
C29_StopIdempotent ==
  [][/\ ev'.op \in C29_StopOps =>
          /\ ev'.op /= "stop_raised"
          /\ jobs' = NoJobs
          /\ GetState' = "stopped"
     /\ (ev'.op \in C29_StopOps /\ sched = "none") =>
          (ev'.op = "stop_noop" /\ sched' = sched /\ jobs' = jobs /\ running' = running)
     /\ (ev.op \in C29_StopOps /\ ev'.op = "start") =>
          jobs' = RealAddJobs(RegisteredJobs(cfg', now), now)]_vars

\* C33: the read-only calls change nothing, and advance_jobs on a Stopped
\* engine returns 0 and changes nothing: a call of advance_jobs made while
\* get_state() is Stopped returns the count 0 and leaves the scheduler, its jobs
\* and their next_run_time as they were.
C33_AdvanceOnStopped ==
  [][(ev'.op = "advance_return" /\ GetState = "stopped") =>
       /\ ev'.ret = 0
       /\ jobs' = jobs
       /\ sched' = sched]_vars

----------------------------------------------------------------------------
(* The job functions _send_announcement and _run_world_backup, run by the      *)
(* instances of the announcement jobs and of the world-backup job              *)

\* get_players raises
QueryRaises == -1
\* the numbers of connected users that get_players reports, or its failure
PlayerCounts == {QueryRaises, 0, 1, 2}

\* a failure that lets the function announce to an empty server
ShouldAnnounce_Always(players) == TRUE

\* _should_announce(): players > 0, and False when get_players raises
ShouldAnnounce(players) == players /= QueryRaises /\ players > 0

\* get_estimated_downtime_minutes: None without a recorded downtime
EstimatedDowntimeMinutes(d) == d.last

\* the message of _send_announcement: the lead time with "minute" or "minutes",
\* and the estimate of format_downtime_estimate when there is one
Message(minutes, est) ==
  [lead |-> minutes,
   unit |-> IF minutes = 1 THEN "minute" ELSE "minutes",
   est |-> est,
   estUnit |-> IF est = NoTime THEN "" ELSE IF est = 1 THEN "minute" ELSE "minutes"]

\* _send_announcement(minutes) with players the answer of get_players, readable
\* whether the downtime file can be read, and ok whether announce() returns
SendAnnouncement(id, players, readable, ok) ==
  IF ~ShouldAnnounce(players)
    THEN [JlIdle EXCEPT !.job = id, !.players = players, !.calls = <<"get_players">>]
    ELSE IF ~readable
      THEN [JlIdle EXCEPT !.job = id, !.players = players,
                          !.calls = <<"get_players", "format_downtime_estimate">>,
                          !.raised = TRUE]
      ELSE [JlIdle EXCEPT !.job = id, !.players = players,
                          !.calls = <<"get_players", "format_downtime_estimate", "announce">>,
                          !.msg = Message(LeadOf(id), EstimatedDowntimeMinutes(dt)),
                          !.log = IF ok THEN "Announced" ELSE "Failed to announce"]

\* the instance of announcement job id runs _send_announcement and ends; an
\* exception that leaves the function is caught and logged by the executor
RunAnnouncement(id) ==
  /\ id \in running
  /\ IsAnnounce(id)
  /\ \E players \in PlayerCounts, readable \in BOOLEAN, ok \in BOOLEAN :
       /\ jl' = SendAnnouncement(id, players, readable, ok)
       /\ ev' = Event(IF jl'.raised THEN "job_error" ELSE "ran", 0)
  /\ running' = running \ {id}
  /\ UNCHANGED <<cfg, now, sched, jobs, adv, nadv, bk, dt>>
  /\ UNCHANGED daemonVars

\* a failed world backup that takes its job out of the table
RunWorldBackup_Cancels(ok) ==
  /\ "world_backup" \in running
  /\ jl' = [JlIdle EXCEPT !.job = "world_backup", !.calls = <<"world_backup">>,
                          !.log = IF ok THEN "World backup complete" ELSE "World backup failed"]
  /\ jobs' = IF ok THEN jobs ELSE Restrict(jobs, DOMAIN jobs \ {"world_backup"})
  /\ running' = running \ {"world_backup"}
  /\ ev' = Event("ran", 0)
  /\ UNCHANGED <<cfg, now, sched, adv, nadv, bk, dt>>
  /\ UNCHANGED daemonVars

\* the instance of the world-backup job runs _run_world_backup and ends: the
\* failure of world_backup is logged
RunWorldBackup(ok) ==
  /\ "world_backup" \in running
  /\ jl' = [JlIdle EXCEPT !.job = "world_backup", !.calls = <<"world_backup">>,
                          !.log = IF ok THEN "World backup complete" ELSE "World backup failed"]
  /\ running' = running \ {"world_backup"}
  /\ ev' = Event("ran", 0)
  /\ UNCHANGED <<cfg, now, sched, jobs, adv, nadv, bk, dt>>
  /\ UNCHANGED daemonVars

\* the configurations and the start times of the engine whose job functions are followed
JobConfigs ==
  { [world |-> 1, server |-> 2, offset |-> 1],
    [world |-> 1, server |-> 24, offset |-> 0] }
JobTimes == {45, 59}

InitJobs == SchedInit(JobConfigs, JobTimes) /\ BackupInit /\ DaemonInit
NextJobs ==
  \/ sched = "none" /\ Start
  \/ ProcessJobs
  \/ RunJob("reschedule_announcements")
  \/ \E id \in AnnounceIds : RunAnnouncement(id)
  \/ \E ok \in BOOLEAN : RunWorldBackup(ok)
  \/ Tick
  \/ EngineBeginCycle
  \/ \E ok \in BOOLEAN : CycleStep(ok)
  \/ \E ok \in BOOLEAN : Recover(ok)
  \/ CycleReturn
SpecJobs == InitJobs /\ [][NextJobs]_vars

\* C26: a fired announcement job sends a message only if get_players reports at
\* least one connected user: with zero players, or when the query raises,
\* announce() is not invoked; a failure of announce() is caught and does not leave
\* the job function.
C26_AnnounceOnlyWithPlayers ==
  jl.job \in AnnounceIds =>
    /\ "announce" \in Range(jl.calls) => jl.players >= 1
    /\ jl.players = 0 => jl.calls = <<"get_players">>
    /\ jl.players = QueryRaises => (jl.calls = <<"get_players">> /\ ~jl.raised)
    /\ jl.log = "Failed to announce" => (~jl.raised /\ ev.op /= "job_error")
    /\ jl.calls[Len(jl.calls)] = "announce" => jl.log \in {"Announced", "Failed to announce"}

C26_Witness ==
  /\ jl.job = "announce_5"
  /\ jl.players = 2
  /\ jl.log = "Failed to announce"
  /\ jl.msg = [lead |-> 5, unit |-> "minutes", est |-> NoTime, estUnit |-> ""]
  /\ ev.op = "ran"
  /\ sched = "running"

\* whether the last run of a job function met a failure of a collaborator
C27_WorldFailed == jl.job = "world_backup" /\ jl.log = "World backup failed"
C27_AnnounceFailed == jl.job \in AnnounceIds /\ (jl.log = "Failed to announce" \/ jl.raised)
C27_CycleFailed == bk.failed /= ""

\* whether the cron job id is still in the table with a next occurrence, of which
\* the running timer context starts an instance when it is due and none is running
C27_StillFires(id) ==
  /\ id \in DOMAIN jobs
  /\ jobs[id].nrt /= NoTime
  /\ (id \in DueJobs /\ id \notin running) => (sched = "running" /\ id \in Submitted)

----------------------------------------------------------------------------
(* The daemon process: background.main and the RPC listener thread *)

\* psutil.pid_exists(pid)
PidExists(pid) == pid \in DaemonPids /\ dm[pid].st \notin {"unborn", "exited"}

\* is_daemon_running(): the PID file holds the id of a live process
IsDaemonRunning == pidFile /= NoFile /\ PidExists(pidFile)

\* write_pid_file(): the PID file is written with the process id, whatever it held
WritePidFile(d) ==
  /\ dm[d].st = "spawned"
  /\ pidFile' = d
  /\ dm' = [dm EXCEPT ![d].st = "pidwritten"]
  /\ dev' = Event("write_pid", d)
  /\ UNCHANGED <<readyFile, srcFiles, port, cli>>
  /\ UNCHANGED <<schedVars, backupVars, rpc>>

\* load_config(), scheduler.start(config) and rpc_server.start(): when one of the
\* first two raises the process exits with code 1; else the RPC thread is started,
\* the signal handlers are installed and the poll loop is entered
DaemonStartup(d, ok) ==
  /\ dm[d].st = "pidwritten"
  /\ ~dm[d].sig
  /\ IF ok
       THEN dm' = [dm EXCEPT ![d].st = "polling", ![d].rpc = "starting"]
       ELSE dm' = [dm EXCEPT ![d].st = "exited", ![d].code = 1]
  /\ dev' = Event(IF ok THEN "startup" ELSE "startup_failed", d)
  /\ UNCHANGED <<pidFile, readyFile, srcFiles, port, cli>>
  /\ UNCHANGED <<schedVars, backupVars, rpc>>

\* SchedulerRPCServer.run up to its accept loop: a failed bind ends the thread
\* (the process goes on); after bind and listen the ready marker is touched
RpcRun(d) ==
  /\ dm[d].st = "polling"
  /\ dm[d].rpc = "starting"
  /\ IF port = NoProc
       THEN /\ port' = d
            /\ readyFile' = TRUE
            /\ dm' = [dm EXCEPT ![d].rpc = "listening"]
            /\ dev' = Event("rpc_ready", d)
       ELSE /\ UNCHANGED <<port, readyFile>>
            /\ dm' = [dm EXCEPT ![d].rpc = "failed"]
            /\ dev' = Event("rpc_bind_failed", d)
  /\ UNCHANGED <<pidFile, srcFiles, cli>>
  /\ UNCHANGED <<schedVars, backupVars, rpc>>

\* rpc_server.stop(): the listening socket is closed, which ends the accept loop
RpcAfterStop(r) == IF r = "listening" THEN "closed" ELSE r
PortAfterExit(d) == IF port = d THEN NoProc ELSE port

\* what handle_shutdown_signal does before sys.exit(0)
SignalShutdownSteps == <<"rpc_stop", "scheduler_stop", "unlink_pid">>
\* what graceful_shutdown does before sys.exit(0)
GracefulShutdownSteps == <<"rpc_stop", "scheduler_stop", "unlink_pid", "unlink_ready">>

\* the files after the steps of a shutdown
PidFileAfter(steps) == IF "unlink_pid" \in Range(steps) THEN NoFile ELSE pidFile
ReadyFileAfter(steps) == IF "unlink_ready" \in Range(steps) THEN FALSE ELSE readyFile

\* a shutdown of daemon d that performs steps and exits with code 0
Shutdown(d, steps, op) ==
  /\ dm' = [dm EXCEPT ![d].st = "exited", ![d].rpc = RpcAfterStop(@),
                      ![d].sig = FALSE, ![d].log = steps \o <<"exit">>]
  /\ port' = PortAfterExit(d)
  /\ pidFile' = PidFileAfter(steps)
  /\ readyFile' = ReadyFileAfter(steps)
  /\ dev' = Event(op, d)

\* whether a poll of the main loop finds a reason to shut down: the PID file is
\* gone, or one of the critical source files is
PollShutsDown == pidFile = NoFile \/ ~srcFiles

\* one round of the main loop, after its sleep of 10 seconds (by when the RPC
\* thread has bound or failed)
Poll(d) ==
  /\ dm[d].st = "polling"
  /\ dm[d].rpc /= "starting"
  /\ ~dm[d].sig
  /\ IF PollShutsDown
       THEN Shutdown(d, GracefulShutdownSteps,
                     IF pidFile = NoFile THEN "shutdown_pid" ELSE "shutdown_src")
       ELSE /\ dev' = Event("poll_ok", d)
            /\ UNCHANGED <<dm, port, pidFile, readyFile>>
  /\ UNCHANGED <<srcFiles, cli>>
  /\ UNCHANGED <<schedVars, backupVars, rpc>>

\* SIGTERM arrives: handle_shutdown_signal once it is installed, the default
\* action (the process ends at once) before
HandleSignal(d) ==
  /\ dm[d].sig
  /\ dm[d].st \in {"spawned", "pidwritten", "polling"}
  /\ IF dm[d].st = "polling"
       THEN Shutdown(d, SignalShutdownSteps, "shutdown_signal")
       ELSE /\ dm' = [dm EXCEPT ![d].st = "exited", ![d].sig = FALSE, ![d].code = 15]
            /\ dev' = Event("terminated", d)
            /\ UNCHANGED <<port, pidFile, readyFile>>
  /\ UNCHANGED <<srcFiles, cli>>
  /\ UNCHANGED <<schedVars, backupVars, rpc>>

----------------------------------------------------------------------------
(* The daemon manager: daemon.start_daemon and daemon.stop_daemon *)

\* a front end is invoked with a command
Invoke(c, cmd) ==
  /\ cli[c].pc = "idle"
  /\ cli' = [cli EXCEPT ![c] = [CliIdle EXCEPT !.cmd = cmd, !.pc = "check"]]
  /\ dev' = Event("invoke", c)
  /\ UNCHANGED <<pidFile, readyFile, srcFiles, port, dm>>
  /\ UNCHANGED <<schedVars, backupVars, rpc>>

\* start_daemon(): "if is_daemon_running(): ... sys.exit(1)"
StartCheck(c) ==
  /\ cli[c].cmd = "start" /\ cli[c].pc = "check"
  /\ IF IsDaemonRunning
       THEN cli' = [cli EXCEPT ![c].pc = "idle", ![c].out = "already_running"]
       ELSE cli' = [cli EXCEPT ![c].pc = "spawn"]
  /\ dev' = Event("start_check", c)
  /\ UNCHANGED <<pidFile, readyFile, srcFiles, port, dm>>
  /\ UNCHANGED <<schedVars, backupVars, rpc>>

\* subprocess.Popen([sys.executable, "-m", "vsm.background"])
StartSpawn(c) ==
  /\ cli[c].cmd = "start" /\ cli[c].pc = "spawn"
  /\ \E d \in DaemonPids :
       /\ dm[d].st = "unborn"
       /\ \A e \in DaemonPids : dm[e].st = "unborn" => d <= e
       /\ dm' = [dm EXCEPT ![d].st = "spawned"]
       /\ cli' = [cli EXCEPT ![c].pc = "sleep", ![c].child = d]
  /\ dev' = Event("spawn", c)
  /\ UNCHANGED <<pidFile, readyFile, srcFiles, port>>
  /\ UNCHANGED <<schedVars, backupVars, rpc>>

\* after time.sleep(2): "if is_daemon_running(): started, else: failed, sys.exit(1)"
StartRecheck(c) ==
  /\ cli[c].cmd = "start" /\ cli[c].pc = "sleep"
  /\ cli' = [cli EXCEPT ![c].pc = "idle",
                        ![c].out = IF IsDaemonRunning THEN "started" ELSE "failed"]
  /\ dev' = Event("start_recheck", c)
  /\ UNCHANGED <<pidFile, readyFile, srcFiles, port, dm>>
  /\ UNCHANGED <<schedVars, backupVars, rpc>>

\* stop_daemon(): the PID file is read; without a live process of that id the
\* daemon is reported not running
StopCheck(c) ==
  /\ cli[c].cmd = "stop" /\ cli[c].pc = "check"
  /\ IF IsDaemonRunning
       THEN cli' = [cli EXCEPT ![c].pc = "terminate", ![c].pid = pidFile]
       ELSE cli' = [cli EXCEPT ![c].pc = "cleanup", ![c].out = "not_running"]
  /\ dev' = Event("stop_check", c)
  /\ UNCHANGED <<pidFile, readyFile, srcFiles, port, dm>>
  /\ UNCHANGED <<schedVars, backupVars, rpc>>

\* psutil.Process(pid).terminate(): SIGTERM is sent (NoSuchProcess when the
\* process is gone by now)
StopTerminate(c) ==
  /\ cli[c].cmd = "stop" /\ cli[c].pc = "terminate"
  /\ IF PidExists(cli[c].pid)
       THEN /\ dm' = [dm EXCEPT ![cli[c].pid].sig = TRUE]
            /\ cli' = [cli EXCEPT ![c].pc = "wait"]
       ELSE /\ UNCHANGED dm
            /\ cli' = [cli EXCEPT ![c].pc = "cleanup", ![c].out = "was_not_running"]
  /\ dev' = Event("terminate", c)
  /\ UNCHANGED <<pidFile, readyFile, srcFiles, port>>
  /\ UNCHANGED <<schedVars, backupVars, rpc>>

\* a wait that gives up after its timeout without the forced kill
StopWait_NoKill(c) ==
  /\ cli[c].cmd = "stop" /\ cli[c].pc = "wait"
  /\ cli' = [cli EXCEPT ![c].pc = "cleanup",
                        ![c].out = IF PidExists(cli[c].pid) THEN "killed" ELSE "stopped"]
  /\ dev' = Event("stop_wait", c)
  /\ UNCHANGED <<pidFile, readyFile, srcFiles, port, dm>>
  /\ UNCHANGED <<schedVars, backupVars, rpc>>

\* proc.wait(timeout=5): the process has exited, or the wait times out and the
\* process is killed
StopWait(c) ==
  /\ cli[c].cmd = "stop" /\ cli[c].pc = "wait"
  /\ IF PidExists(cli[c].pid)
       THEN /\ dm' = [dm EXCEPT ![cli[c].pid].st = "exited", ![cli[c].pid].sig = FALSE,
                                ![cli[c].pid].code = 9]
            /\ port' = PortAfterExit(cli[c].pid)
            /\ cli' = [cli EXCEPT ![c].pc = "cleanup", ![c].out = "killed"]
       ELSE /\ UNCHANGED <<dm, port>>
            /\ cli' = [cli EXCEPT ![c].pc = "cleanup", ![c].out = "stopped"]
  /\ dev' = Event("stop_wait", c)
  /\ UNCHANGED <<pidFile, readyFile, srcFiles>>
  /\ UNCHANGED <<schedVars, backupVars, rpc>>

\* the daemons whose PID file is taken away by a deletion of the file
MarkDeleted ==
  [d \in DaemonPids |->
     IF pidFile /= NoFile /\ dm[d].st = "polling" /\ ~dm[d].sig
       THEN [dm[d] EXCEPT !.deleted = TRUE]
       ELSE dm[d]]

\* "if PID_FILE.exists(): PID_FILE.unlink()"
StopCleanup(c) ==
  /\ cli[c].cmd = "stop" /\ cli[c].pc = "cleanup"
  /\ pidFile' = NoFile
  /\ dm' = MarkDeleted
  /\ cli' = [cli EXCEPT ![c].pc = "idle"]
  /\ dev' = Event("stop_cleanup", c)
  /\ UNCHANGED <<readyFile, srcFiles, port>>
  /\ UNCHANGED <<schedVars, backupVars, rpc>>

----------------------------------------------------------------------------
(* The environment of the daemon *)

\* some actor deletes the PID file
DeletePidFile ==
  /\ pidFile /= NoFile
  /\ pidFile' = NoFile
  /\ dm' = MarkDeleted
  /\ dev' = Event("delete_pid", 0)
  /\ UNCHANGED <<readyFile, srcFiles, port, cli>>
  /\ UNCHANGED <<schedVars, backupVars, rpc>>

\* the installation is removed from the disk
RemoveSource ==
  /\ srcFiles
  /\ srcFiles' = FALSE
  /\ dev' = Event("remove_source", 0)
  /\ UNCHANGED <<pidFile, readyFile, port, dm, cli>>
  /\ UNCHANGED <<schedVars, backupVars, rpc>>

InitDaemon == SchedInit({[world |-> 1, server |-> 6, offset |-> 0]}, {0}) /\ BackupInit /\ DaemonInit
NextDaemon ==
  \/ \E d \in DaemonPids : WritePidFile(d)
  \/ \E d \in DaemonPids, ok \in BOOLEAN : DaemonStartup(d, ok)
  \/ \E d \in DaemonPids : RpcRun(d)
  \/ \E d \in DaemonPids : Poll(d)
  \/ \E d \in DaemonPids : HandleSignal(d)
  \/ \E c \in ClientIds, cmd \in {"start", "stop"} : Invoke(c, cmd)
  \/ \E c \in ClientIds : StartCheck(c)
  \/ \E c \in ClientIds : StartSpawn(c)
  \/ \E c \in ClientIds : StartRecheck(c)
  \/ \E c \in ClientIds : StopCheck(c)
  \/ \E c \in ClientIds : StopTerminate(c)
  \/ \E c \in ClientIds : StopWait(c)
  \/ \E c \in ClientIds : StopCleanup(c)
  \/ DeletePidFile
  \/ RemoveSource
SpecDaemon == InitDaemon /\ [][NextDaemon]_vars

\* the daemon processes that are alive
LiveDaemons == {d \in DaemonPids : PidExists(d)}

\* C4: at most one daemon process is alive at any time: start_daemon spawns no
\* second daemon, and no second daemon overwrites the PID file, while a first
\* one is alive.
C4_SingleDaemon == Cardinality(LiveDaemons) <= 1

\* C5: a graceful shutdown, whatever triggered it (a termination signal, the
\* deleted PID file, the missing source files), stops the RPC server, then the
\* scheduler, then deletes the PID file and the ready marker, then exits: when
\* it has run neither the PID file nor the ready marker exists.
C5_ShutdownLeavesNoFiles ==
  dev.op \in {"shutdown_signal", "shutdown_pid", "shutdown_src"} =>
    /\ dm[dev.ret].log = <<"rpc_stop", "scheduler_stop", "unlink_pid", "unlink_ready", "exit">>
    /\ pidFile = NoFile
    /\ ~readyFile

\* C6: a running daemon whose PID file was deleted by some actor shuts down at
\* its next poll of the main loop: no poll of such a daemon lets it run on.
C6_DeletedPidFileStops ==
  dev.op = "poll_ok" => ~dm[dev.ret].deleted

\* C7: the ready marker exists only while a daemon process is alive whose RPC
\* listener is bound and accepting connections.
C7_ReadyMeansListening ==
  readyFile => \E d \in DaemonPids : dm[d].st = "polling" /\ dm[d].rpc = "listening"

\* C15: a failure of the daemon's startup is fatal to the daemon process: a
\* daemon whose RPC listener failed to bind its port (or whose configuration
\* failed to load) exits; it does not run on through its poll loop.
C15_StartupFailureFatal ==
  /\ \A d \in DaemonPids : dm[d].code = 1 => dm[d].st = "exited"
  /\ dev.op = "poll_ok" => dm[dev.ret].rpc /= "failed"

\* the outcomes of stop_daemon()
StopOutcomes == {"not_running", "was_not_running", "stopped", "killed"}

ExitStatus(out) == IF out \in {"already_running", "failed"} THEN 1 ELSE 0

\* the outcomes that are lifecycle errors
LifecycleErrors == {"already_running", "not_running", "was_not_running"}

\* C17: every lifecycle error (start_daemon with a daemon running, stop_daemon
\* without one, a failure to bind the RPC port) is reported to the front end with
\* a nonzero exit status.
C17_LifecycleErrorsNonzero ==
  \A c \in ClientIds :
    /\ cli[c].out \in LifecycleErrors => ExitStatus(cli[c].out) /= 0
    /\ (cli[c].cmd = "start" /\ cli[c].pc = "idle" /\ cli[c].child /= NoProc
          /\ dm[cli[c].child].rpc = "failed") => ExitStatus(cli[c].out) /= 0

----------------------------------------------------------------------------
(* The RPC layer: SchedulerRPCClient and the accept loop of SchedulerRPCServer *)

\* the calls of the client
RpcMethods == {"get_status", "get_jobs", "advance_jobs"}
\* what a peer of the listener can do instead of sending a valid request: close
\* without sending, reset the connection, send bytes that are not UTF-8, send
\* malformed JSON, name an unknown method, call a method whose handler raises
PeerFaults ==
  {"empty", "reset", "undecodable", "malformed", "unknown_method", "handler_raises"}

ConnectionFailed == "Connection to scheduler daemon failed."
EmptyResponse == "Empty response from server"
ErrorObject(msg) == [type |-> "error", msg |-> msg, n |-> 0]

\* what _send_request returns: on a timeout the connection-failed error, on a
\* connection closed without a response the empty-response error, else the
\* decoded response, which holds a result or the error of the server
SendRequestReturn(wire, val, timeout) ==
  IF timeout
    THEN ErrorObject(ConnectionFailed)
    ELSE CASE wire = "closed" -> ErrorObject(EmptyResponse)
           [] wire = "error" -> ErrorObject("rpc error")
           [] wire = "reset" -> ErrorObject("An unexpected error occurred")
           [] wire = "result" -> [type |-> "result", msg |-> "", n |-> val]

\* get_status / advance_jobs: "if 'error' in response: return response", else
\* the result
ResultOrError(type, r) ==
  IF r.type = "error" THEN r ELSE [type |-> type, msg |-> "", n |-> r.n]
\* get_jobs: response.get("result", []) and the conversion of its jobs
JobsOrEmpty(r) ==
  [type |-> "jobs", msg |-> "", n |-> IF r.type = "result" THEN r.n ELSE 0]

\* what the client call returns for the response r of _send_request
WrapperReturn(method, r) ==
  CASE method = "get_status" -> ResultOrError("status", r)
    [] method = "get_jobs" -> JobsOrEmpty(r)
    [] method = "advance_jobs" -> ResultOrError("advanced", r)

\* the text of a timestamp: its date, its hour and its minute
NoText == <<>>
\* a conversion that writes the date alone
IsoFormat_DateOnly(t) == <<t \div DAY, 0, 0>>

\* datetime.isoformat()
IsoFormat(t) == <<t \div DAY, HourOf(t), MinuteOf(t)>>
\* datetime.fromisoformat(text)
FromIsoFormat(text) == text[1] * DAY + text[2] * HOUR + text[3]

\* the get_jobs handler: 'if job.get("next_run_time")' converts the timestamp of
\* the projection to text and leaves a missing one as it is
ServerJobsReply(tbl) ==
  [id \in DOMAIN tbl |->
     IF tbl[id].nrt = NoTime THEN NoText ELSE IsoFormat(tbl[id].nrt)]
\* the client's get_jobs: the text of every job of the result is converted back
ClientJobs(reply) ==
  [id \in DOMAIN reply |->
     IF reply[id] = NoText THEN NoTime ELSE FromIsoFormat(reply[id])]

\* a control call that waits for the backup cycle
ControlBlocked_ByCycle(pc) == pc \in Range(CycleSteps)

\* whether the RPC context has to wait for the backup cycle at position pc: it
\* is a thread of its own, and the cycle runs in the executor pool and holds no
\* lock of the scheduler
ControlBlocked(pc) == FALSE

\* the result of the handler of a method: the state, the number of jobs, the
\* number of advanced jobs
HandlerResult(method) ==
  CASE method = "get_status" -> StateCode(GetState)
    [] method = "get_jobs" -> Cardinality(DOMAIN jobs)
    [] method = "advance_jobs" ->
         Cardinality({id \in DOMAIN jobs : jobs[id].nrt /= NoTime})

\* a dispatch that runs the advance_jobs handler besides the one that was named
JobsAfterHandler_EveryMethod(method) ==
  [id \in DOMAIN jobs |->
     IF jobs[id].nrt = NoTime
       THEN jobs[id]
       ELSE [jobs[id] EXCEPT !.nrt = NewTime(@, IF method = "advance_jobs" THEN 2 ELSE 1)]]

\* the job table after the handler of a method: advance_jobs(1) shifts the jobs
JobsAfterHandler(method) ==
  IF method = "advance_jobs"
    THEN [id \in DOMAIN jobs |->
            IF jobs[id].nrt = NoTime
              THEN jobs[id]
              ELSE [jobs[id] EXCEPT !.nrt = NewTime(@, 1)]]
    ELSE jobs

\* run() of the listener thread up to its accept loop: bind, listen, ready marker
RpcListen ==
  /\ sched = "running"
  /\ rpc.srv = "down"
  /\ rpc' = [rpc EXCEPT !.srv = "accept"]
  /\ readyFile' = TRUE
  /\ UNCHANGED <<pidFile, srcFiles, port, dm, cli, dev>>
  /\ UNCHANGED <<schedVars, backupVars>>

\* whether the listening socket takes connections: it was bound, and it was not
\* closed, or an accept() call that was in progress at the close still holds it
Listening == rpc.srv /= "down" /\ (~rpc.closed \/ rpc.blocked)

\* whether a new connection can be made: the previous one was taken off the
\* listener's queue
PeerFree == rpc.cl \in {"idle", "done"} /\ rpc.link = "none"

\* a front end calls a method of SchedulerRPCClient
ClientCall(method) ==
  /\ PeerFree
  /\ method = "advance_jobs" => nadv < MaxAdvances
  /\ nadv' = IF method = "advance_jobs" THEN nadv + 1 ELSE nadv
  /\ rpc' = [rpc EXCEPT !.cl = "connect", !.method = method, !.fault = "none",
                        !.wire = "none", !.val = 0, !.ret = NoReturn,
                        !.during = "idle", !.held = <<>>, !.text = <<>>,
                        !.got = <<>>]
  /\ UNCHANGED <<cfg, now, sched, jobs, running, adv, ev>>
  /\ UNCHANGED <<pidFile, readyFile, srcFiles, port, dm, cli, dev>>
  /\ UNCHANGED backupVars

\* socket.create_connection and sendall: refused when nothing listens, else the
\* connection waits in the queue of the listening socket with the request sent
ClientConnect ==
  /\ rpc.cl = "connect"
  /\ IF ~Listening
       THEN rpc' = [rpc EXCEPT
                      !.cl = "done",
                      !.ret = WrapperReturn(rpc.method,
                                SendRequestReturn("none", 0, TRUE))]
       ELSE rpc' = [rpc EXCEPT !.cl = "wait", !.link = "queued"]
  /\ UNCHANGED <<pidFile, readyFile, srcFiles, port, dm, cli, dev>>
  /\ UNCHANGED <<schedVars, backupVars>>

\* sock.recv raises socket.timeout after two seconds without a response
ClientTimeout ==
  /\ rpc.cl = "wait"
  /\ rpc.wire = "none"
  /\ rpc' = [rpc EXCEPT
               !.cl = "done",
               !.ret = WrapperReturn(rpc.method, SendRequestReturn("none", 0, TRUE))]
  /\ UNCHANGED <<pidFile, readyFile, srcFiles, port, dm, cli, dev>>
  /\ UNCHANGED <<schedVars, backupVars>>

\* sock.recv returns the response, or nothing when the connection was closed
ClientReceive ==
  /\ rpc.cl = "wait"
  /\ rpc.wire /= "none"
  /\ rpc' = [rpc EXCEPT
               !.cl = "done",
               !.ret = WrapperReturn(rpc.method,
                         SendRequestReturn(rpc.wire, rpc.val, FALSE)),
               !.got = IF rpc.method = "get_jobs" /\ rpc.wire = "result"
                         THEN ClientJobs(rpc.text)
                         ELSE <<>>]
  /\ UNCHANGED <<pidFile, readyFile, srcFiles, port, dm, cli, dev>>
  /\ UNCHANGED <<schedVars, backupVars>>

\* some other peer connects to the listener and misbehaves
PeerConnect(fault) ==
  /\ PeerFree
  /\ Listening
  /\ rpc' = [rpc EXCEPT !.cl = "peer", !.method = "raw", !.fault = fault,
                        !.link = "queued", !.wire = "none", !.val = 0,
                        !.ret = NoReturn, !.during = "idle"]
  /\ UNCHANGED <<pidFile, readyFile, srcFiles, port, dm, cli, dev>>
  /\ UNCHANGED <<schedVars, backupVars>>

\* server_socket.accept() returns the queued connection
RpcAccept ==
  /\ rpc.srv = "accept"
  /\ rpc.link = "queued"
  /\ Listening
  /\ ~ControlBlocked(bk.pc)
  /\ rpc' = [rpc EXCEPT !.srv = "recv", !.link = "open", !.blocked = FALSE]
  /\ UNCHANGED <<pidFile, readyFile, srcFiles, port, dm, cli, dev>>
  /\ UNCHANGED <<schedVars, backupVars>>

\* what the accept loop does with the accepted connection, by what arrives:
\*   no data: "continue", nothing is sent;
\*   a reset: socket.error, "break", the loop ends;
\*   undecodable bytes: the exception is logged, nothing is sent;
\*   a request that openrpc answers with an error: the error response is sent;
\*   a valid request: the handler runs and the result is sent.
\* sendall to a peer that has gone may raise socket.error (broken), "break".
RpcServe(broken) ==
  /\ rpc.srv = "recv"
  /\ ~ControlBlocked(bk.pc)
  /\ broken => (rpc.cl = "done" /\ rpc.fault = "none")
  /\ LET f == rpc.fault
         sent == CASE f \in {"empty", "undecodable", "reset"} -> "closed"
                   [] f \in {"malformed", "unknown_method", "handler_raises"} -> "error"
                   [] f = "none" -> IF broken THEN "closed" ELSE "result"
     IN  /\ rpc' = [rpc EXCEPT
                      !.srv = IF f = "reset" \/ broken THEN "ended" ELSE "accept",
                      !.link = "none",
                      !.wire = sent,
                      !.val = IF f = "none" THEN HandlerResult(rpc.method) ELSE 0,
                      !.held = IF f = "none" /\ rpc.method = "get_jobs"
                                 THEN [id \in DOMAIN jobs |-> jobs[id].nrt]
                                 ELSE <<>>,
                      !.text = IF f = "none" /\ rpc.method = "get_jobs" /\ sent = "result"
                                 THEN ServerJobsReply(jobs)
                                 ELSE <<>>,
                      !.cl = IF rpc.cl = "peer" THEN "done" ELSE rpc.cl,
                      !.during = bk.pc]
         /\ jobs' = IF f = "none" THEN JobsAfterHandler(rpc.method) ELSE jobs
  /\ UNCHANGED <<cfg, now, sched, running, adv, nadv, ev>>
  /\ UNCHANGED <<pidFile, readyFile, srcFiles, port, dm, cli, dev>>
  /\ UNCHANGED backupVars

\* SchedulerRPCServer.stop(): the listening socket is closed from the main
\* thread. The connection that waits in its queue is reset. An accept() call in
\* progress in the listener thread either fails at once (wakes) or, as the
\* platform has it, goes on waiting on the socket it holds.
RpcStop(wakes) ==
  /\ rpc.srv /= "down"
  /\ ~rpc.closed
  /\ rpc' = [rpc EXCEPT
               !.closed = TRUE,
               !.blocked = rpc.srv = "accept" /\ ~wakes,
               !.link = IF rpc.link = "queued" THEN "none" ELSE @,
               !.wire = IF rpc.link = "queued" /\ rpc.cl = "wait" THEN "reset" ELSE @,
               !.cl = IF rpc.link = "queued" /\ rpc.cl = "peer" THEN "done" ELSE @]
  /\ UNCHANGED <<pidFile, readyFile, srcFiles, port, dm, cli, dev>>
  /\ UNCHANGED <<schedVars, backupVars>>

\* server_socket.accept() on the closed socket raises socket.error: "break"
RpcAcceptClosed ==
  /\ rpc.srv = "accept"
  /\ rpc.closed
  /\ ~rpc.blocked
  /\ rpc' = [rpc EXCEPT !.srv = "ended"]
  /\ UNCHANGED <<pidFile, readyFile, srcFiles, port, dm, cli, dev>>
  /\ UNCHANGED <<schedVars, backupVars>>

InitRpc == SchedInit({[world |-> 1, server |-> 6, offset |-> 0]}, {30}) /\ BackupInit /\ DaemonInit
NextRpc ==
  \/ sched = "none" /\ Start
  \/ RpcListen
  \/ \E method \in RpcMethods : ClientCall(method)
  \/ ClientConnect
  \/ ClientTimeout
  \/ ClientReceive
  \/ \E fault \in PeerFaults : PeerConnect(fault)
  \/ RpcAccept
  \/ \E broken \in BOOLEAN : RpcServe(broken)
  \/ sched = "running" /\ BeginCycle
  \/ \E ok \in BOOLEAN : CycleStep(ok)
  \/ \E ok \in BOOLEAN : Recover(ok)
SpecRpc == InitRpc /\ [][NextRpc]_vars

\* C13: a client call made while nothing listens on the port, or whose
\* connection times out, returns the structured error object with the
\* connection-failure message, and no value that a successful reply could be.
C13_TransportErrorReported ==
  (rpc.cl = "done" /\ rpc.fault = "none" /\ rpc.wire = "none") =>
    rpc.ret = ErrorObject(ConnectionFailed)

\* C14: a failure while serving one request (a peer that sends nothing, resets
\* the connection, sends undecodable or malformed data, names an unknown method,
\* or hits a handler exception) is answered with an error response on its
\* connection and does not end the accept loop.
C14_FailureKeepsListener ==
  (rpc.fault \in PeerFaults /\ rpc.cl = "done") =>
    /\ rpc.wire = "error"
    /\ rpc.srv /= "ended"

C32_Accepts == rpc'.link = "open" /\ rpc.link /= "open"
\* the step of the accept loop that is done with the accepted connection
C32_Serves == rpc.link = "open" /\ rpc'.link /= "open"
\* the step answers a well-formed request for the method
C32_Answers(method) ==
  C32_Serves /\ rpc.fault = "none" /\ rpc.method = method /\ rpc'.wire = "result"

C33_RpcReadsLeaveEngine ==
  [][(C32_Serves /\ rpc.method \in {"get_status", "get_jobs"}) =>
       (jobs' = jobs /\ sched' = sched /\ GetState' = GetState)]_vars

\* the world_backup job as start() registers it, before it has a next_run_time
C34_Pending == WorldJobs(cfg)

----------------------------------------------------------------------------
(* The RPC layer with the stop of the listener at the shutdown of the daemon *)

NextRpcStop ==
  \/ sched = "none" /\ Start
  \/ RpcListen
  \/ \E method \in RpcMethods : ClientCall(method)
  \/ ClientConnect
  \/ ClientTimeout
  \/ ClientReceive
  \/ \E fault \in PeerFaults : PeerConnect(fault)
  \/ RpcAccept
  \/ \E broken \in BOOLEAN : RpcServe(broken)
  \/ \E wakes \in BOOLEAN : RpcStop(wakes)
  \/ RpcAcceptClosed
SpecRpcStop == InitRpc /\ [][NextRpcStop]_vars

\* C31: stopping the RPC server closes the listening socket, and the accept loop
\* ends by the socket-closed condition: the loop ends only after
\* SchedulerRPCServer.stop(), never by a transport error on a connection, and
\* after the stop no further connection is accepted.
C31_StopEndsLoop ==
  /\ rpc.srv = "ended" => rpc.closed
  /\ (rpc.closed /\ rpc.srv = "accept") => rpc.link /= "queued"

\* C30: Paused is unreachable: whatever start(), stop() and the firings of the
\* jobs did, get_state() reports Stopped or Running, never Paused, and so does
\* the reply that the get_status handler gives in that state.
C30_NeverPaused ==
  /\ GetState \in SchedulerState \ {"paused"}
  /\ GetState \in {"stopped", "running"}
  /\ HandlerResult("get_status") \in {StateCode("stopped"), StateCode("running")}
  /\ HandlerResult("get_status") /= StateCode("paused")

C30_Witness ==
  /\ sched = "running"
  /\ bk.pc = "server_backup"
  /\ "server_backup" \in running
  /\ GetState = "running"
  /\ HandlerResult("get_status") = 1

====
